---- MODULE Spec2Model ----
(***************************************************************************)
(* Model of bin/gitlab_exporter.py: the label-transition report.           *)
(*                                                                         *)
(* Instants are integers (ticks since an arbitrary epoch); calendar dates  *)
(* given on the command line are instants at midnight, one tick per day.   *)
(* A Python optional (None or a datetime) is a sequence of length 0 or 1.  *)
(* A normalised event is the tuple <<label, created_at>> of the source.    *)
(***************************************************************************)
EXTENDS Integers, Sequences, FiniteSets

\* ------------------------------------------------------------------------
\* Bounds of the model
\* ------------------------------------------------------------------------
MaxLen == 4          \* detector: length of the sorted event sequence
MaxTime == 1         \* detector: instants are 0..MaxTime
MaxDate == 2         \* window filter: instants and dates are 0..MaxDate
MaxRaw == 2          \* issue: number of raw label events of the issue
MaxRawTime == 1      \* issue: instants of the raw label events
NumProjects == 2     \* run: projects of config["gitlab:projects"]
MaxIssues == 2       \* run: issues the tracker lists over the whole run
MaxIssueEvents == 2  \* run: status events the tracker lists for one issue
Today == 2           \* run: date.today()

\* ------------------------------------------------------------------------
\* Constants of the program
\* ------------------------------------------------------------------------
LABEL_DOING == "status::Doing"
LABEL_REVIEW == "status::Review"
LABEL_READY_FOR_QA == "status::Ready for Final QA"
LABEL_WAITING_FOR_PROD == "status::Waiting for PROD"
LABEL_RELEASED == "status::Released"

LABELS ==
    [l \in {LABEL_DOING, LABEL_REVIEW, LABEL_READY_FOR_QA,
            LABEL_WAITING_FOR_PROD, LABEL_RELEASED} |->
        CASE l = LABEL_DOING -> "Doing"
          [] l = LABEL_REVIEW -> "Review"
          [] l = LABEL_READY_FOR_QA -> "QA"
          [] l = LABEL_WAITING_FOR_PROD -> "Waiting for Prod"
          [] l = LABEL_RELEASED -> "Released"]

LABEL_TRANSITIONS ==
    << <<LABEL_DOING, LABEL_REVIEW>>,
       <<LABEL_REVIEW, LABEL_READY_FOR_QA>>,
       <<LABEL_READY_FOR_QA, LABEL_WAITING_FOR_PROD>>,
       <<LABEL_WAITING_FOR_PROD, LABEL_RELEASED>>,
       <<LABEL_DOING, LABEL_RELEASED>> >>

\* LABELS.keys()
StatusLabels == DOMAIN LABELS

\* timedelta(days=30) of the --start-date default
DefaultWindowDays == 30

\* 3600 * 24 of the elapsed-days cell
SecondsPerDay == 86400

\* string.ascii_uppercase
ascii_uppercase ==
    <<"A", "B", "C", "D", "E", "F", "G", "H", "I", "J", "K", "L", "M",
      "N", "O", "P", "Q", "R", "S", "T", "U", "V", "W", "X", "Y", "Z">>

\* A label name the tracker may carry that is not a status label.
OtherLabel == "bug"

\* ------------------------------------------------------------------------
\* Python values
\* ------------------------------------------------------------------------
None == << >>

Some(x) == << x >>

\* Truth value of an optional datetime: None is false, a datetime is true.
IsPresent(opt) == Len(opt) > 0

Pair(s, e) == [start_datetime |-> s, end_datetime |-> e]

\* ------------------------------------------------------------------------
\* Raw label events of the provider
\*   label      : << >> when the event has no label, <<name>> otherwise
\*   created_at : the timestamp text; iso says whether the text (after the
\*                trailing "Z" is stripped) is in ISO format, instant is the
\*                instant it denotes when it is
\* ------------------------------------------------------------------------
RawLabels == {None} \cup {Some(n) : n \in StatusLabels \cup {OtherLabel}}

RawTimestamps(maxT) ==
    {[iso |-> TRUE, instant |-> t] : t \in 0..maxT}
        \cup {[iso |-> FALSE, instant |-> 0]}

RawEvents(maxT) ==
    {[label |-> l, created_at |-> c] : l \in RawLabels, c \in RawTimestamps(maxT)}

SeqsUpTo(S, n) == UNION {[1..k -> S] : k \in 0..n}

\* parse_datetime: raises ValueError on a text that is not in ISO format.
ParseRaises(datetime_str) == ~datetime_str.iso

parse_datetime(datetime_str) == datetime_str.instant

\* The comprehension's condition: event.label and event.label["name"] in LABELS
IsRelevant(event) ==
    /\ Len(event.label) > 0
    /\ event.label[1] \in StatusLabels

\* One iteration of the comprehension over the provider's events: the
\* condition is evaluated first, the timestamp is parsed only when it holds.
\* acc is [raised, events].
NormalizeStepMutParseFirst(acc, event) ==
    IF acc.raised THEN acc
    ELSE IF ParseRaises(event.created_at) THEN [raised |-> TRUE, events |-> << >>]
    ELSE IF ~IsRelevant(event) THEN acc
    ELSE [raised |-> FALSE,
          events |-> Append(acc.events,
                            <<event.label[1], parse_datetime(event.created_at)>>)]

NormalizeStepMutSkipMalformed(acc, event) ==
    IF acc.raised THEN acc
    ELSE IF ~IsRelevant(event) THEN acc
    ELSE IF ParseRaises(event.created_at) THEN acc
    ELSE [raised |-> FALSE,
          events |-> Append(acc.events,
                            <<event.label[1], parse_datetime(event.created_at)>>)]

NormalizeStep(acc, event) ==
    IF acc.raised THEN acc
    ELSE IF ~IsRelevant(event) THEN acc
    ELSE IF ParseRaises(event.created_at) THEN [raised |-> TRUE, events |-> << >>]
    ELSE [raised |-> FALSE,
          events |-> Append(acc.events,
                            <<event.label[1], parse_datetime(event.created_at)>>)]

RECURSIVE NormalizeFrom(_, _, _)
NormalizeFrom(raw, i, acc) ==
    IF i > Len(raw) THEN acc
    ELSE NormalizeFrom(raw, i + 1, NormalizeStep(acc, raw[i]))

Normalize(raw) == NormalizeFrom(raw, 1, [raised |-> FALSE, events |-> << >>])

\* sorted(events, key=operator.itemgetter(1)): a stable sort on created_at.
RECURSIVE InsertByCreated(_, _)
InsertByCreated(sortedEvents, ev) ==
    IF sortedEvents = << >> THEN <<ev>>
    ELSE IF sortedEvents[Len(sortedEvents)][2] <= ev[2]
         THEN Append(sortedEvents, ev)
         ELSE Append(InsertByCreated(SubSeq(sortedEvents, 1, Len(sortedEvents) - 1), ev),
                     sortedEvents[Len(sortedEvents)])

RECURSIVE SortedFrom(_, _, _)
SortedFrom(events, i, acc) ==
    IF i > Len(events) THEN acc
    ELSE SortedFrom(events, i + 1, InsertByCreated(acc, events[i]))

sortedMutUnsorted(events) == events

sortedMutDescending(events) ==
    LET ascending == SortedFrom(events, 1, << >>)
    IN  [i \in 1..Len(ascending) |-> ascending[Len(ascending) + 1 - i]]

sorted(events) == SortedFrom(events, 1, << >>)

\* find_events_dates_changes: the loop, from position i with the current
\* start_datetime.
RECURSIVE ScanEvents(_, _, _, _, _)
ScanEvents(events, i, start_datetime, starting_label, final_label) ==
    IF i > Len(events) THEN Pair(start_datetime, None)
    ELSE IF events[i][1] = final_label
         THEN Pair(start_datetime, Some(events[i][2]))
    ELSE IF events[i][1] = starting_label
         THEN ScanEvents(events, i + 1, Some(events[i][2]), starting_label, final_label)
    ELSE ScanEvents(events, i + 1, start_datetime, starting_label, final_label)

\* The loop without its break: the last final_label wins.
RECURSIVE ScanEventsNoBreak(_, _, _, _, _, _)
ScanEventsNoBreak(events, i, start_datetime, end_datetime, starting_label, final_label) ==
    IF i > Len(events) THEN Pair(start_datetime, end_datetime)
    ELSE IF events[i][1] = final_label
         THEN ScanEventsNoBreak(events, i + 1, start_datetime, Some(events[i][2]),
                                starting_label, final_label)
    ELSE IF events[i][1] = starting_label
         THEN ScanEventsNoBreak(events, i + 1, Some(events[i][2]), end_datetime,
                                starting_label, final_label)
    ELSE ScanEventsNoBreak(events, i + 1, start_datetime, end_datetime,
                           starting_label, final_label)

find_events_dates_changesMutNoBreak(events, starting_label, final_label) ==
    ScanEventsNoBreak(events, 1, None, None, starting_label, final_label)

find_events_dates_changes(events, starting_label, final_label) ==
    ScanEvents(events, 1, None, starting_label, final_label)

\* Lines 146-154 of find_issue_dates_changes: the reporting window
\* [start_date, end_date) applied to one detected pair.
WindowFilterMutClosed(pair, sd, ed) ==
    IF /\ IsPresent(pair.start_datetime)
       /\ IsPresent(pair.end_datetime)
       /\ ~(sd <= pair.end_datetime[1] /\ pair.end_datetime[1] <= ed)
    THEN Pair(None, None)
    ELSE pair

WindowFilter(pair, sd, ed) ==
    IF /\ IsPresent(pair.start_datetime)
       /\ IsPresent(pair.end_datetime)
       /\ ~(sd <= pair.end_datetime[1] /\ pair.end_datetime[1] < ed)
    THEN Pair(None, None)
    ELSE pair

\* Lines 139-156: sort, then one filtered pair per transition, in order.
DateChanges(normalized, sd, ed) ==
    LET sortedEvents == sorted(normalized)
    IN  [k \in 1..Len(LABEL_TRANSITIONS) |->
            WindowFilter(find_events_dates_changes(sortedEvents,
                                                   LABEL_TRANSITIONS[k][1],
                                                   LABEL_TRANSITIONS[k][2]),
                         sd, ed)]

\* find_issue_dates_changes on the events the provider lists for the issue:
\* either the ValueError of parse_datetime propagates, or the five pairs.
find_issue_dates_changes(rawEvents, sd, ed) ==
    LET n == Normalize(rawEvents)
    IN  IF n.raised THEN [raised |-> TRUE, values |-> << >>]
        ELSE [raised |-> FALSE, values |-> DateChanges(n.events, sd, ed)]

\* ------------------------------------------------------------------------
\* Cells of the table.  A Python str that is a literal is [text |-> ...], a
\* formatted datetime is [chars |-> its digits], a number is [num |-> ...],
\* a project's display name is [name |-> ...].
\* ------------------------------------------------------------------------
Text(t) == [text |-> t]

Num(n) == [num |-> n]

\* format_datetime_for_gsheet on a datetime: the fixed-width text of the
\* instant (never the empty string).
format_datetime_for_gsheet(datetime_obj) ==
    [chars |-> <<datetime_obj \div 10, datetime_obj % 10>>]

\* (end_datetime - start_datetime).total_seconds() / (3600 * 24), with one
\* tick of the model being one day.
ElapsedDays(start_datetime, end_datetime) ==
    ((end_datetime - start_datetime) * SecondsPerDay) \div SecondsPerDay

\* Python truth value of a cell: "" and 0 are false.
Truthy(cell) ==
    IF "text" \in DOMAIN cell THEN cell.text # ""
    ELSE IF "chars" \in DOMAIN cell THEN cell.chars # << >>
    ELSE IF "num" \in DOMAIN cell THEN cell.num # 0
    ELSE TRUE

anyMutNumbersOnly(cells) ==
    \E i \in 1..Len(cells) : "num" \in DOMAIN cells[i] /\ Truthy(cells[i])

any(cells) == \E i \in 1..Len(cells) : Truthy(cells[i])

\* Lines 190-197: the three cells of one transition.
Triple(pair) ==
    IF pair.start_datetime = None \/ pair.end_datetime = None
    THEN <<Text(""), Text(""), Text("")>>
    ELSE <<format_datetime_for_gsheet(pair.start_datetime[1]),
           format_datetime_for_gsheet(pair.end_datetime[1]),
           Num(ElapsedDays(pair.start_datetime[1], pair.end_datetime[1]))>>

\* Lines 186-197: issue_values after the loop over date_changes.
RECURSIVE IssueValuesFrom(_, _, _)
IssueValuesFrom(date_changes, k, acc) ==
    IF k > Len(date_changes) THEN acc
    ELSE IssueValuesFrom(date_changes, k + 1, acc \o Triple(date_changes[k]))

IssueValues(date_changes) == IssueValuesFrom(date_changes, 1, << >>)

\* Lines 224-228: the header.
RECURSIVE HeaderFrom(_, _)
HeaderFrom(k, acc) ==
    IF k > Len(LABEL_TRANSITIONS) THEN acc
    ELSE HeaderFrom(k + 1,
                    acc \o <<Text(LABELS[LABEL_TRANSITIONS[k][1]]),
                             Text(LABELS[LABEL_TRANSITIONS[k][2]]),
                             Text("Nb. days")>>)

Header == HeaderFrom(1, <<Text("Project"), Text("Issue #")>>)

\* project.name of the i-th configured project
ProjectName(i) == [name |-> i]

\* Lines 243-245: v.insert(0, project.name) for each row of the project.
WithProjectName(i, rows) == [r \in 1..Len(rows) |-> <<ProjectName(i)>> \o rows[r]]

\* --start-date default: str(date.today() - timedelta(days=30))
DefaultStartDateMutToday(today_) == today_

DefaultStartDate(today_) == today_ - DefaultWindowDays

\* --end-date default: str(date.today())
DefaultEndDate(today_) == today_

\* Line 95: the range of worksheet.update; string.ascii_uppercase[nb_cols]
\* is indexed from 0.
UpdateRange(nb_rows, nb_cols) ==
    [from_col |-> "A", from_row |-> 1,
     to_col |-> ascii_uppercase[nb_cols + 1], to_row |-> nb_rows]

\* ------------------------------------------------------------------------
\* State
\* ------------------------------------------------------------------------
VARIABLES
    pc,               \* position of the computation
    raw,              \* the raw label events the provider lists for the issue
    events,           \* the (label, created_at) tuples
    starting_label,   \* detector: the transition looked for
    final_label,
    detected,         \* (start_datetime, end_datetime) before the window filter
    filtered,         \* (start_datetime, end_datetime) after the window filter
    start_date,       \* the reporting window
    end_date,
    result,           \* outcome of find_issue_dates_changes: [raised, values]
    today,            \* date.today()
    options,          \* --start-date and --end-date as given (None when not)
    values,           \* generate_label_report: the table
    project_idx,      \* number of projects taken from config["gitlab:projects"]
    project_values,   \* find_project_date_changes: the rows of the project
    issue_idx,        \* number of issues of the project taken from its listing
    issues_listed,    \* number of issues listed by the tracker in the run
    issue,            \* the current issue: << >> or <<iid>>
    event,            \* the comprehension's event: << >> or <<the raw event>>
    issue_values,     \* find_project_date_changes: the cells of the issue
    sheet_updates     \* the worksheet.update calls received by the spreadsheet

runVars == <<today, options, values, project_idx, project_values, issue_idx,
             issues_listed, issue, event, issue_values, sheet_updates>>

vars == <<pc, raw, events, starting_label, final_label, detected, filtered,
          start_date, end_date, result, runVars>>

RunIdle ==
    /\ today = 0
    /\ options = [start_date |-> None, end_date |-> None]
    /\ values = << >>
    /\ project_idx = 0
    /\ project_values = << >>
    /\ issue_idx = 0
    /\ issues_listed = 0
    /\ issue = None
    /\ event = None
    /\ issue_values = << >>
    /\ sheet_updates = << >>

NoResult == [raised |-> FALSE, values |-> << >>]

\* ------------------------------------------------------------------------
\* find_events_dates_changes on every sorted sequence of status events
\* ------------------------------------------------------------------------
StatusEvents == StatusLabels \X (0..MaxTime)

IsSortedByCreated(s) == \A i \in 1..Len(s) - 1 : s[i][2] <= s[i + 1][2]

SortedEventSeqs == {s \in SeqsUpTo(StatusEvents, MaxLen) : IsSortedByCreated(s)}

\* The (starting_label, final_label) arguments: the five transitions the
\* program asks for, and a pair with twice the same label.
DetectorPairs ==
    {LABEL_TRANSITIONS[k] : k \in 1..Len(LABEL_TRANSITIONS)}
        \cup {<<LABEL_DOING, LABEL_DOING>>}

InitDetector ==
    /\ RunIdle
    /\ pc = "detector_input"
    /\ events \in SortedEventSeqs
    /\ \E pair \in DetectorPairs :
          starting_label = pair[1] /\ final_label = pair[2]
    /\ detected = Pair(None, None)
    /\ filtered = Pair(None, None)
    /\ raw = << >>
    /\ start_date = 0
    /\ end_date = 0
    /\ result = NoResult

CallDetector ==
    /\ pc = "detector_input"
    /\ detected' = find_events_dates_changes(events, starting_label, final_label)
    /\ pc' = "detector_done"
    /\ UNCHANGED <<raw, events, starting_label, final_label, filtered,
                   start_date, end_date, result, runVars>>

NextDetector == CallDetector

SpecDetector == InitDetector /\ [][NextDetector]_vars

\* ------------------------------------------------------------------------
\* The window filter on every pair and every window
\* ------------------------------------------------------------------------
Optionals(maxT) == {None} \cup {Some(t) : t \in 0..maxT}

InitWindow ==
    /\ RunIdle
    /\ pc = "window_input"
    /\ detected \in {Pair(s, e) : s \in Optionals(MaxDate), e \in Optionals(MaxDate)}
    /\ start_date \in 0..MaxDate
    /\ end_date \in 0..MaxDate
    /\ filtered = Pair(None, None)
    /\ events = << >>
    /\ starting_label = LABEL_DOING
    /\ final_label = LABEL_REVIEW
    /\ raw = << >>
    /\ result = NoResult

CallWindowFilter ==
    /\ pc = "window_input"
    /\ filtered' = WindowFilter(detected, start_date, end_date)
    /\ pc' = "window_done"
    /\ UNCHANGED <<raw, events, starting_label, final_label, detected,
                   start_date, end_date, result, runVars>>

NextWindow == CallWindowFilter

SpecWindow == InitWindow /\ [][NextWindow]_vars

\* ------------------------------------------------------------------------
\* find_issue_dates_changes on every collection of raw events
\* ------------------------------------------------------------------------
InitIssue ==
    /\ RunIdle
    /\ pc = "issue_input"
    /\ raw \in SeqsUpTo(RawEvents(MaxRawTime), MaxRaw)
    /\ start_date \in 0..MaxRawTime
    /\ end_date \in 0..(MaxRawTime + 1)
    /\ result = NoResult
    /\ events = << >>
    /\ starting_label = LABEL_DOING
    /\ final_label = LABEL_REVIEW
    /\ detected = Pair(None, None)
    /\ filtered = Pair(None, None)

CallFindIssueDatesChanges ==
    /\ pc = "issue_input"
    /\ result' = find_issue_dates_changes(raw, start_date, end_date)
    /\ events' = LET n == Normalize(raw)
                 IN  IF n.raised THEN << >> ELSE sorted(n.events)
    /\ pc' = "issue_done"
    /\ UNCHANGED <<raw, starting_label, final_label, detected, filtered,
                   start_date, end_date, runVars>>

NextIssue == CallFindIssueDatesChanges

SpecIssue == InitIssue /\ [][NextIssue]_vars

\* ------------------------------------------------------------------------
\* A run of generate_label_report
\* ------------------------------------------------------------------------
pureVars == <<raw, starting_label, final_label, detected, filtered>>

Init ==
    /\ pc = "cli"
    /\ today = Today
    /\ options = [start_date |-> None, end_date |-> None]
    /\ start_date = 0
    /\ end_date = 0
    /\ values = << >>
    /\ project_idx = 0
    /\ project_values = << >>
    /\ issue_idx = 0
    /\ issues_listed = 0
    /\ issue = None
    /\ event = None
    /\ events = << >>
    /\ result = NoResult
    /\ issue_values = << >>
    /\ sheet_updates = << >>
    /\ raw = << >>
    /\ starting_label = LABEL_DOING
    /\ final_label = LABEL_REVIEW
    /\ detected = Pair(None, None)
    /\ filtered = Pair(None, None)

\* Dates that can be given on the command line (None: option not given).
CliDates == {None, Some(1)}

\* The label events the tracker can list for an issue in a run.
RunLabels == {None, Some(LABEL_DOING), Some(LABEL_REVIEW), Some(OtherLabel)}

RunEvents ==
    {[label |-> l, created_at |-> c] : l \in RunLabels, c \in RawTimestamps(1)}

\* iid of the k-th issue of a listing: the tracker lists the newest first.
IidOf(k) == MaxIssues + 1 - k

\* Lines 210-230: click fills in the defaults, the header is built.
Invoke(start_opt, end_opt) ==
    /\ pc = "cli"
    /\ options' = [start_date |-> start_opt, end_date |-> end_opt]
    /\ start_date' = IF start_opt = None THEN DefaultStartDate(today) ELSE start_opt[1]
    /\ end_date' = IF end_opt = None THEN DefaultEndDate(today) ELSE end_opt[1]
    /\ values' = <<Header>>
    /\ pc' = "project_loop"
    /\ UNCHANGED <<today, project_idx, project_values, issue_idx, issues_listed,
                   issue, event, events, result, issue_values, sheet_updates,
                   pureVars>>

\* Lines 233-235 and 172: the next configured project is fetched.
NextProject ==
    /\ pc = "project_loop"
    /\ project_idx < NumProjects
    /\ project_idx' = project_idx + 1
    /\ project_values' = << >>
    /\ issue_idx' = 0
    /\ issue' = None
    /\ pc' = "issue_loop"
    /\ UNCHANGED <<today, options, start_date, end_date, values, issues_listed,
                   event, events, result, issue_values, sheet_updates, pureVars>>

\* Line 175: the listing yields the next issue.
NextIssueOfProject ==
    /\ pc = "issue_loop"
    /\ issues_listed < MaxIssues
    /\ issue' = Some(IidOf(issue_idx + 1))
    /\ issue_idx' = issue_idx + 1
    /\ issues_listed' = issues_listed + 1
    /\ events' = << >>
    /\ event' = None
    /\ pc' = "event_loop"
    /\ UNCHANGED <<today, options, start_date, end_date, values, project_idx,
                   project_values, result, issue_values, sheet_updates, pureVars>>

\* Lines 132-136: one event of the issue's listing goes through the
\* comprehension; the ValueError of parse_datetime ends the run.
NextEvent(ev) ==
    /\ pc = "event_loop"
    /\ Len(events) < MaxIssueEvents
    /\ event' = Some(ev)
    /\ LET acc == NormalizeStep([raised |-> FALSE, events |-> events], ev)
       IN  IF acc.raised
           THEN pc' = "aborted" /\ UNCHANGED events
           ELSE pc' = "event_loop" /\ events' = acc.events
    /\ UNCHANGED <<today, options, start_date, end_date, values, project_idx,
                   project_values, issue_idx, issues_listed, issue, result,
                   issue_values, sheet_updates, pureVars>>

\* Lines 139-156 and 186-205: the listing of events is exhausted; the pairs
\* are computed and find_issue_dates_changes returns (its locals are gone),
\* the cells are built and the row is appended or skipped.
EndOfEvents ==
    /\ pc = "event_loop"
    /\ LET date_changes == DateChanges(events, start_date, end_date)
           cells == IssueValues(date_changes)
       IN  /\ result' = [raised |-> FALSE, values |-> date_changes]
           /\ issue_values' = cells
           /\ project_values' =
                 IF ~any(cells) THEN project_values
                 ELSE Append(project_values, <<Num(issue[1])>> \o cells)
    /\ event' = None
    /\ events' = << >>
    /\ pc' = "issue_loop"
    /\ UNCHANGED <<today, options, start_date, end_date, values, project_idx,
                   issue_idx, issues_listed, issue, sheet_updates, pureVars>>

\* Lines 207 and 243-245: the listing of issues is exhausted; the rows of the
\* project get its name and join the table.
EndOfIssues ==
    /\ pc = "issue_loop"
    /\ values' = values \o WithProjectName(project_idx, project_values)
    /\ pc' = "project_loop"
    /\ UNCHANGED <<today, options, start_date, end_date, project_idx,
                   project_values, issue_idx, issues_listed, issue, event,
                   events, result, issue_values, sheet_updates, pureVars>>

\* The tracker's client raises (gl.projects.get, a page of an issue listing,
\* a page of an event listing): nothing catches it.
ProviderRaises ==
    /\ \/ pc = "project_loop" /\ project_idx < NumProjects
       \/ pc = "issue_loop"
       \/ pc = "event_loop"
    /\ pc' = "aborted"
    /\ UNCHANGED <<today, options, start_date, end_date, values, project_idx,
                   project_values, issue_idx, issues_listed, issue, event,
                   events, result, issue_values, sheet_updates, pureVars>>

\* Line 248 is reached when the loop over the projects is exhausted.
WriteReachedMutAnyTime == TRUE

WriteReached == project_idx = NumProjects

\* Lines 83-95: write_to_gsheet(values); the tab is looked up, created when
\* missing, and updated once.  An index past "Z" raises IndexError.
write_to_gsheet(tab_exists) ==
    /\ pc = "project_loop"
    /\ WriteReached
    /\ LET nb_rows == Len(values)
           nb_cols == Len(values[1])
       IN  IF nb_cols + 1 > Len(ascii_uppercase)
           THEN pc' = "aborted" /\ UNCHANGED sheet_updates
           ELSE /\ sheet_updates' =
                      Append(sheet_updates,
                             [tab_created |-> ~tab_exists,
                              range |-> UpdateRange(nb_rows, nb_cols),
                              values |-> values])
                /\ pc' = "done"
    /\ UNCHANGED <<today, options, start_date, end_date, values, project_idx,
                   project_values, issue_idx, issues_listed, issue, event,
                   events, result, issue_values, pureVars>>

\* Line 84: the spreadsheet cannot be opened.
SheetRaises ==
    /\ pc = "project_loop"
    /\ WriteReached
    /\ pc' = "aborted"
    /\ UNCHANGED <<today, options, start_date, end_date, values, project_idx,
                   project_values, issue_idx, issues_listed, issue, event,
                   events, result, issue_values, sheet_updates, pureVars>>

Next ==
    \/ \E s \in CliDates, e \in CliDates : Invoke(s, e)
    \/ NextProject
    \/ NextIssueOfProject
    \/ \E ev \in RunEvents : NextEvent(ev)
    \/ EndOfEvents
    \/ EndOfIssues
    \/ ProviderRaises
    \/ \E tab_exists \in BOOLEAN : write_to_gsheet(tab_exists)
    \/ SheetRaises

Spec == Init /\ [][Next]_vars

\* ------------------------------------------------------------------------
\* Properties
\* ------------------------------------------------------------------------
Min(S) == CHOOSE x \in S : \A y \in S : x <= y

Max(S) == CHOOSE x \in S : \A y \in S : y <= x

FinalPositions == {i \in 1..Len(events) : events[i][1] = final_label}

StartPositions ==
    {i \in 1..Len(events) :
        /\ events[i][1] = starting_label
        /\ (FinalPositions = {} \/ i < Min(FinalPositions))}

\* C1: on a sorted sequence, end is the timestamp of the first event labelled
\* final_label (absent if none), start is the timestamp of the last event
\* labelled starting_label strictly before it (over the whole sequence if
\* final_label never occurs; absent if none), and the events after the first
\* final_label event do not change the result.
C1_LatestStartEarliestEnd ==
    pc = "detector_done" =>
        /\ detected.end_datetime =
              IF FinalPositions = {} THEN None
              ELSE Some(events[Min(FinalPositions)][2])
        /\ detected.start_datetime =
              IF StartPositions = {} THEN None
              ELSE Some(events[Max(StartPositions)][2])
        /\ FinalPositions # {} =>
              detected = find_events_dates_changes(
                             SubSeq(events, 1, Min(FinalPositions)),
                             starting_label, final_label)

\* C1 witness: two starting_label events at different instants, then a
\* final_label event, then one more starting_label or final_label event; the
\* later start and the first end are returned.
C1_Witness ==
    /\ pc = "detector_done"
    /\ Len(events) = 4
    /\ starting_label # final_label
    /\ events[1][1] = starting_label
    /\ events[2][1] = starting_label
    /\ events[3][1] = final_label
    /\ events[4][1] \in {starting_label, final_label}
    /\ events[1][2] < events[2][2]
    /\ detected = Pair(Some(events[2][2]), Some(events[3][2]))

InWindow(t) == start_date <= t /\ t < end_date

\* C2: the window filter keeps a complete pair whose end is in
\* [start_date, end_date), blanks a complete pair whose end is outside it, and
\* leaves every pair with an absent side as it is; start is never compared.
C2_WindowHalfOpen ==
    pc = "window_done" =>
        IF IsPresent(detected.start_datetime) /\ IsPresent(detected.end_datetime)
        THEN IF InWindow(detected.end_datetime[1])
             THEN filtered = detected
             ELSE filtered = Pair(None, None)
        ELSE filtered = detected

\* C2 witness: a complete pair whose end is exactly end_date of a non-empty
\* window, with start inside the window: both sides are blanked.
C2_Witness ==
    /\ pc = "window_done"
    /\ start_date < end_date
    /\ IsPresent(detected.start_datetime)
    /\ IsPresent(detected.end_datetime)
    /\ detected.end_datetime[1] = end_date
    /\ InWindow(detected.start_datetime[1])
    /\ filtered = Pair(None, None)

\* C4: whatever the order of the raw events, a pair with both sides present
\* has end >= start.
C4_EndNotBeforeStart ==
    (pc = "issue_done" /\ ~result.raised) =>
        \A k \in 1..Len(result.values) :
            (IsPresent(result.values[k].start_datetime)
                /\ IsPresent(result.values[k].end_datetime))
            => result.values[k].end_datetime[1] >= result.values[k].start_datetime[1]

\* C4 witness: the provider lists the later event first, and a pair with
\* start < end comes out.
C4_Witness ==
    /\ pc = "issue_done"
    /\ ~result.raised
    /\ Len(raw) = 2
    /\ raw[1].created_at.instant > raw[2].created_at.instant
    /\ \E k \in 1..Len(result.values) :
          /\ IsPresent(result.values[k].start_datetime)
          /\ IsPresent(result.values[k].end_datetime)
          /\ result.values[k].start_datetime[1] < result.values[k].end_datetime[1]

HasStatusLabel(ev) ==
    /\ ev.label # None
    /\ ev.label[1] \in {LABEL_DOING, LABEL_REVIEW, LABEL_READY_FOR_QA,
                            LABEL_WAITING_FOR_PROD, LABEL_RELEASED}

\* C5: the result is the result on the collection with every event whose
\* label is absent or not a status label removed, so two collections that
\* differ only in such events have the same result.
C5_OtherEventsIgnored ==
    pc = "issue_done" =>
        result = find_issue_dates_changes(SelectSeq(raw, HasStatusLabel),
                                          start_date, end_date)

\* C5 witness: an event without a status label and with an unparsable
\* timestamp is listed first, and a transition is still reported.
C5_Witness ==
    /\ pc = "issue_done"
    /\ Len(raw) = MaxRaw
    /\ ~HasStatusLabel(raw[1])
    /\ ~raw[1].created_at.iso
    /\ ~result.raised
    /\ \E k \in 1..Len(result.values) : IsPresent(result.values[k].start_datetime)

Orderings(n) == {p \in [1..n -> 1..n] : \A i, j \in 1..n : p[i] = p[j] => i = j}

Permuted(s, p) == [i \in 1..Len(s) |-> s[p[i]]]

\* C9 as stated: every permutation of the raw events gives the same result.
C9_AnyOrderSameResult ==
    pc = "issue_done" =>
        \A p \in Orderings(Len(raw)) :
            find_issue_dates_changes(Permuted(raw, p), start_date, end_date) = result

NoTieBetweenLabels ==
    \A i, j \in 1..Len(raw) :
        (/\ HasStatusLabel(raw[i]) /\ HasStatusLabel(raw[j])
         /\ raw[i].created_at.iso /\ raw[j].created_at.iso
         /\ raw[i].label # raw[j].label)
        => raw[i].created_at.instant # raw[j].created_at.instant

\* C9 amended: when no two status events with different labels carry the
\* same timestamp, every permutation of the raw events gives the same result.
C9_AnyOrderSameResultNoTie ==
    (pc = "issue_done" /\ NoTieBetweenLabels) =>
        \A p \in Orderings(Len(raw)) :
            find_issue_dates_changes(Permuted(raw, p), start_date, end_date) = result

\* C9 witness: two status events with different labels and different
\* timestamps, listed latest first, yield a complete pair.
C9_Witness ==
    /\ pc = "issue_done"
    /\ NoTieBetweenLabels
    /\ ~result.raised
    /\ Len(raw) = 2
    /\ HasStatusLabel(raw[1]) /\ HasStatusLabel(raw[2])
    /\ raw[1].created_at.instant > raw[2].created_at.instant
    /\ \E k \in 1..Len(result.values) :
          /\ IsPresent(result.values[k].start_datetime)
          /\ IsPresent(result.values[k].end_datetime)

\* The cells of the k-th transition in issue_values.
TripleCells(k) == SubSeq(issue_values, 3 * k - 2, 3 * k)

TripleIsBlank(k) == \A c \in 1..3 : TripleCells(k)[c] = Text("")

AnyTripleNotBlank == \E k \in 1..Len(LABEL_TRANSITIONS) : ~TripleIsBlank(k)

\* The row of the current issue is the last row of project_values.
RowAppended ==
    /\ project_values # << >>
    /\ project_values[Len(project_values)] = <<Num(issue[1])>> \o issue_values

IssueProcessed == pc = "issue_loop" /\ issue # None

\* C3: after an issue is processed, a triple is three blank cells exactly
\* when its start or end is absent after the window filter; the issue's row
\* is appended iff some triple is not blank, begins with the issue's iid, and
\* no row carries the iid of an issue whose triples are all blank.
C3_RowIffSomeTriple ==
    IssueProcessed =>
        /\ Len(issue_values) = 3 * Len(LABEL_TRANSITIONS)
        /\ \A k \in 1..Len(LABEL_TRANSITIONS) :
              TripleIsBlank(k) <=>
                  (result.values[k].start_datetime = None
                      \/ result.values[k].end_datetime = None)
        /\ \A k \in 1..Len(LABEL_TRANSITIONS) :
              ~TripleIsBlank(k) =>
                  \A c \in 1..2 : TripleCells(k)[c] # Text("")
        /\ AnyTripleNotBlank <=> RowAppended
        /\ Len(project_values) <= issue_idx
        /\ ~AnyTripleNotBlank =>
              \A r \in 1..Len(project_values) :
                  project_values[r][1] # Num(issue[1])

\* C3 witness: the issue has one triple whose start equals its end (its
\* elapsed-days cell is 0) and blank triples besides, and its row is appended.
C3_Witness ==
    /\ IssueProcessed
    /\ result.values[1].start_datetime # None
    /\ result.values[1].start_datetime = result.values[1].end_datetime
    /\ TripleCells(1)[3] = Num(0)
    /\ \A k \in 2..Len(LABEL_TRANSITIONS) : TripleIsBlank(k)
    /\ RowAppended

\* C6, in every state: at most one update; an update is made only at the end
\* of the run, after all projects, with the whole table (header, then the
\* rows of every project, the last project's rows last); an aborted run has
\* made no update.
C6_StateOk ==
    /\ Len(sheet_updates) <= 1
    /\ sheet_updates # << >> =>
          /\ pc = "done"
          /\ project_idx = NumProjects
          /\ sheet_updates[1].values = values
          /\ values[1] = Header
          /\ Len(values) >= 1 + Len(project_values)
          /\ SubSeq(values, Len(values) - Len(project_values) + 1, Len(values))
                = WithProjectName(NumProjects, project_values)
    /\ pc = "aborted" => sheet_updates = << >>

\* C6, in every step: an update is made from the state in which no project
\* and no issue is left; after an abort nothing changes any more.
C6_StepOk ==
    /\ sheet_updates' # sheet_updates =>
          pc = "project_loop" /\ project_idx = NumProjects /\ pc' = "done"
    /\ pc = "aborted" => pc' = "aborted" /\ sheet_updates' = sheet_updates

\* C6: the spreadsheet is written at most once, only after every project and
\* issue is processed, with the complete table; a run that aborts has not
\* written and does not write afterwards.
C6_WriteOnceAtEnd == [](C6_StateOk) /\ [][C6_StepOk]_vars

\* C6 witness: the run is done and the one update carries the header and two
\* rows, of different projects.
C6_Witness ==
    /\ pc = "done"
    /\ Len(sheet_updates) = 1
    /\ Len(sheet_updates[1].values) = 3
    /\ sheet_updates[1].values[2][1] # sheet_updates[1].values[3][1]

EventUnparsable == event # None /\ ~event[1].created_at.iso

\* C7 as stated: whenever an event with an unparsable timestamp has been
\* taken from a listing, the run has aborted.
C7_AnyUnparsableAborts == EventUnparsable => pc = "aborted"

\* C7 amended: whenever an event with a status label and an unparsable
\* timestamp has been taken from a listing, the run has aborted and nothing
\* is written.
C7_StatusUnparsableAborts ==
    (EventUnparsable /\ HasStatusLabel(event[1])) =>
        pc = "aborted" /\ sheet_updates = << >>

\* C7 witness: the run aborts on such an event after a row was already built.
C7_Witness ==
    /\ pc = "aborted"
    /\ EventUnparsable
    /\ HasStatusLabel(event[1])
    /\ Len(values) + Len(project_values) > 1

NoDateOption == options.start_date = None /\ options.end_date = None

\* C8 as stated: without --start-date and --end-date, start_date is today and
\* end_date is 30 days before today.
C8_DefaultsAsStated ==
    (pc # "cli" /\ NoDateOption) =>
        start_date = today /\ end_date = today - 30

\* C8 amended: without --start-date and --end-date, start_date is 30 days
\* before today and end_date is today.
C8_DefaultWindow ==
    (pc # "cli" /\ NoDateOption) =>
        start_date = today - 30 /\ end_date = today

\* C8 witness: a run without date options that completed with a row in the
\* default window.
C8_Witness ==
    /\ pc = "done"
    /\ NoDateOption
    /\ Len(values) > 1

\* C10: the range written is A1 through the cell whose column is the
\* nb_cols-th letter and whose row is nb_rows; A1:Q<nb_rows> for the report.
C10_RangeSpansTable ==
    sheet_updates # << >> =>
        LET u == sheet_updates[1]
        IN  /\ u.range.from_col = "A"
            /\ u.range.from_row = 1
            /\ u.range.to_row = Len(u.values)
            /\ u.range.to_col = ascii_uppercase[Len(u.values[1])]
            /\ u.range.to_col = "Q"
====
